---- MODULE Spec2Model ----
(***************************************************************************)
(* A model of two value types of the library:                              *)
(*   - FeeRate (units/src/fee_rate/mod.rs): a u64 newtype in sat/kwu with  *)
(*     checked and unchecked arithmetic against Amount and Weight;         *)
(*   - Address (src/wallet/address.rs): the Base58Check payload codec.     *)
(* Every function of the code is an operator; every action of the         *)
(* specifications calls one function on sampled arguments and records the  *)
(* call (op, args) and what it returned (ret).                             *)
(*                                                                         *)
(* FeeRate, Weight and Amount are newtypes over u64 and are represented by *)
(* their raw integer.  The machine word is WordBits wide instead of 64:    *)
(* the code's constants (4, 250, 999, 1000) and its test vectors are kept, *)
(* and U64_MAX stands for u64::MAX in every overflow test.                 *)
(***************************************************************************)
EXTENDS Integers, Sequences, FiniteSets, TLC

VARIABLES
    overflow_checks, \* build profile: TRUE = overflow checks on (debug)
    op,              \* the function last called
    args,            \* its arguments, by the parameter names of the source
    ret,             \* what it returned
    addr,            \* the Address last encoded (NoAddress when none)
    data,            \* the payload bytes handed to / produced by the codec
    decoded          \* the result of the last decode ("pending" before it)

vars == <<overflow_checks, op, args, ret, addr, data, decoded>>

----------------------------------------------------------------------------
(* Bounds of the model *)

WordBits == 19
MaxIter == 3
MaxStride == 2

U64_MAX == 2^WordBits - 1
Modulus == U64_MAX + 1

----------------------------------------------------------------------------
(* Rust values: Option, and the outcome of a call that may panic *)

None == [is_some |-> FALSE]
Some(v) == [is_some |-> TRUE, val |-> v]

Panic == [panicked |-> TRUE]
Done(v) == [panicked |-> FALSE, val |-> v]

----------------------------------------------------------------------------
(* u64 primitives.  The checked_* forms report overflow as None.  The      *)
(* plain operators panic on overflow when the build has overflow checks    *)
(* and wrap modulo 2^w when it has not; division by zero always panics.    *)

u64_checked_mul(a, b) == IF a * b > U64_MAX THEN None ELSE Some(a * b)

u64_checked_add(a, b) == IF a + b > U64_MAX THEN None ELSE Some(a + b)

u64_checked_sub(a, b) == IF b > a THEN None ELSE Some(a - b)

u64_checked_div(a, b) == IF b = 0 THEN None ELSE Some(a \div b)

u64_mul(a, b) ==
    IF a * b > U64_MAX
    THEN IF overflow_checks THEN Panic ELSE Done((a * b) % Modulus)
    ELSE Done(a * b)

u64_add(a, b) ==
    IF a + b > U64_MAX
    THEN IF overflow_checks THEN Panic ELSE Done((a + b) % Modulus)
    ELSE Done(a + b)

u64_sub(a, b) ==
    IF b > a
    THEN IF overflow_checks THEN Panic ELSE Done((a - b) % Modulus)
    ELSE Done(a - b)

u64_div(a, b) == IF b = 0 THEN Panic ELSE Done(a \div b)

RECURSIVE u64_sum(_, _)
u64_sum(acc, iter) ==
    IF iter = <<>> THEN Done(acc)
    ELSE LET r == u64_add(acc, Head(iter))
         IN  IF r.panicked THEN Panic ELSE u64_sum(r.val, Tail(iter))

----------------------------------------------------------------------------
(* Weight (collaborator): 1 vb = 4 wu *)

Weight_from_vb(vb) == u64_checked_mul(vb, 4)

----------------------------------------------------------------------------
(* FeeRate *)

\* wrapping_mul in place of checked_mul
from_sat_per_vb_Wrapping(sat_vb) == Some((sat_vb * (1000 \div 4)) % Modulus)

from_sat_per_vb(sat_vb) ==
    LET m == u64_checked_mul(sat_vb, 1000 \div 4)
    IN  IF m.is_some THEN Some(m.val) ELSE None

\* saturating_mul in place of the plain product
from_sat_per_vb_unchecked_Saturating(sat_vb) ==
    Done(IF sat_vb * (1000 \div 4) > U64_MAX THEN U64_MAX
         ELSE sat_vb * (1000 \div 4))

from_sat_per_vb_unchecked(sat_vb) == u64_mul(sat_vb, 1000 \div 4)

to_sat_per_vb_floor(self) == self \div (1000 \div 4)

to_sat_per_vb_ceil(self) ==
    LET s == u64_add(self, 1000 \div 4 - 1)
    IN  IF s.panicked THEN Panic ELSE Done(s.val \div (1000 \div 4))

checked_mul(self, rhs) ==
    LET m == u64_checked_mul(self, rhs)
    IN  IF m.is_some THEN Some(m.val) ELSE None

checked_div(self, rhs) ==
    LET m == u64_checked_div(self, rhs)
    IN  IF m.is_some THEN Some(m.val) ELSE None

\* the product rounded to the nearest satoshi: 500 added, not 999
checked_mul_by_weight_Nearest(self, weight) ==
    LET mul_res == u64_checked_mul(self, weight)
    IN  IF mul_res.is_some
        THEN LET add_res == u64_checked_add(mul_res.val, 500)
             IN  IF add_res.is_some THEN Some(add_res.val \div 1000) ELSE None
        ELSE None

\* the product divided by 1000 without the 999 added first
checked_mul_by_weight_Floor(self, weight) ==
    LET mul_res == u64_checked_mul(self, weight)
    IN  IF mul_res.is_some THEN Some(mul_res.val \div 1000) ELSE None

checked_mul_by_weight(self, weight) ==
    LET mul_res == u64_checked_mul(self, weight)
    IN  IF mul_res.is_some
        THEN LET add_res == u64_checked_add(mul_res.val, 999)
             IN  IF add_res.is_some THEN Some(add_res.val \div 1000) ELSE None
        ELSE None

checked_add(self, rhs) ==
    LET m == u64_checked_add(self, rhs)
    IN  IF m.is_some THEN Some(m.val) ELSE None

\* saturating_sub in place of checked_sub
checked_sub_Saturating(self, rhs) == Some(IF rhs > self THEN 0 ELSE self - rhs)

checked_sub(self, rhs) ==
    LET m == u64_checked_sub(self, rhs)
    IN  IF m.is_some THEN Some(m.val) ELSE None

fee_wu(self, weight) == checked_mul_by_weight(self, weight)

\* the virtual bytes taken for weight units
fee_vb_AsWeight(self, vb) == fee_wu(self, vb)

fee_vb(self, vb) ==
    LET w == Weight_from_vb(vb)
    IN  IF w.is_some THEN fee_wu(self, w.val) ELSE None

FeeRate_add(self, rhs) == u64_add(self, rhs)

FeeRate_sub(self, rhs) == u64_sub(self, rhs)

\* impl ops::Mul<FeeRate> for Weight: self is the weight, rhs the rate
Weight_mul(self, rhs) ==
    LET m == u64_mul(rhs, self)
    IN  IF m.panicked THEN Panic
        ELSE LET a == u64_add(m.val, 999)
             IN  IF a.panicked THEN Panic ELSE u64_div(a.val, 1000)

\* a product of its own that truncates
FeeRate_mul_Floor(self, rhs) ==
    LET m == u64_mul(self, rhs)
    IN  IF m.panicked THEN Panic ELSE u64_div(m.val, 1000)

\* impl ops::Mul<Weight> for FeeRate: rhs * self
FeeRate_mul(self, rhs) == Weight_mul(rhs, self)

\* a division that rounds up
Amount_div_Ceil(self, rhs) ==
    LET m == u64_mul(self, 1000)
    IN  IF m.panicked \/ rhs = 0 THEN Panic
        ELSE u64_div(m.val + rhs - 1, rhs)

\* impl ops::Div<Weight> for Amount: self is the amount, rhs the weight
Amount_div(self, rhs) ==
    LET m == u64_mul(self, 1000)
    IN  IF m.panicked THEN Panic ELSE u64_div(m.val, rhs)

FeeRate_sum(iter) == u64_sum(0, iter)

----------------------------------------------------------------------------
(* Sampled arguments: the values around every threshold of the code *)

SmallVals == {0, 1, 2, 3, 4, 10, 12, 249, 250, 251, 329, 330, 381, 500,
              749, 750, 863, 864, 999, 1000, 1001}

TinyVals == {v \in SmallVals : v <= 381}

BigVals ==
    UNION {{U64_MAX \div k, U64_MAX \div k + 1} : k \in {2, 3, 4, 10, 250, 1000}}
    \cup {U64_MAX - 999, U64_MAX - 998, U64_MAX - 249, U64_MAX - 248,
          U64_MAX - 1, U64_MAX}

U64s == SmallVals \cup BigVals

\* operand pairs of a rate-by-scalar or rate-by-weight product
MulPairs == {p \in U64s \X U64s : p[1] \in SmallVals \/ p[2] \in SmallVals}

\* (rate, vb) pairs: the weight is 4 * vb
VbPairs == {p \in U64s \X U64s : p[1] \in SmallVals \/ p[2] \in TinyVals}

IterVals == {0, 1, U64_MAX \div 2 + 1, U64_MAX}

Iters == UNION {[1..n -> IterVals] : n \in 0..MaxIter}

----------------------------------------------------------------------------
(* Address *)

PayloadLen == 21
HashLen == PayloadLen - 1

Ok(v) == [is_ok |-> TRUE, val |-> v]
Err(e) == [is_ok |-> FALSE, err |-> e]

InvalidLength(n) == [kind |-> "InvalidLength", len |-> n]
InvalidVersion(v) == [kind |-> "InvalidVersion", ver |-> v]

Networks == {"Bitcoin", "Testnet"}

Address(network, hash) == [network |-> network, hash |-> hash]

NoAddress == [network |-> "none", hash |-> <<>>]
Pending == [pending |-> TRUE]

\* Ripemd160Hash (collaborator): the 20 bytes of the slice, copied
Ripemd160Hash_from_slice(bytes) == [i \in 1..HashLen |-> bytes[i]]

\* a layout that drops the network: every address gets the mainnet byte
base58_layout_NoNetwork(self) == <<0>> \o self.hash

base58_layout(self) ==
    <<CASE self.network = "Bitcoin" -> 0
        [] self.network = "Testnet" -> 111>> \o self.hash

\* a decoder that only rejects payloads that are too short
from_base58_layout_MinLen(d) ==
    IF Len(d) < PayloadLen
    THEN Err(InvalidLength(Len(d)))
    ELSE IF d[1] = 0
         THEN Ok(Address("Bitcoin", Ripemd160Hash_from_slice(SubSeq(d, 2, Len(d)))))
         ELSE IF d[1] = 111
              THEN Ok(Address("Testnet", Ripemd160Hash_from_slice(SubSeq(d, 2, Len(d)))))
              ELSE Err(InvalidVersion(<<d[1]>>))

from_base58_layout(d) ==
    IF Len(d) # PayloadLen
    THEN Err(InvalidLength(Len(d)))
    ELSE IF d[1] = 0
         THEN Ok(Address("Bitcoin", Ripemd160Hash_from_slice(SubSeq(d, 2, Len(d)))))
         ELSE IF d[1] = 111
              THEN Ok(Address("Testnet", Ripemd160Hash_from_slice(SubSeq(d, 2, Len(d)))))
              ELSE Err(InvalidVersion(<<d[1]>>))

\* Sampled bytes strings: position-dependent fills, and the hash of the test
Fill(n, a, b) == [i \in 1..n |-> (a * i + b) % 256]

TestHash == <<22, 44, 94, 167, 28, 11, 35, 245, 185, 2, 46, 240, 71, 196,
              168, 100, 112, 165, 176, 112>>

Hashes == {Fill(HashLen, a, b) : a \in 0..MaxStride, b \in {0, 111, 255}}
          \cup {TestHash}

Addresses == {Address(n, h) : n \in Networks, h \in Hashes}

VersionBytes == {0, 1, 110, 111, 112, 255}

PayloadLens == {0, 1, PayloadLen - 1, PayloadLen, PayloadLen + 1}

Payloads ==
    {[i \in 1..n |-> IF i = 1 THEN v ELSE Fill(n, a, b)[i]] :
        n \in PayloadLens, v \in VersionBytes, a \in 0..MaxStride, b \in {0, 111}}

----------------------------------------------------------------------------
(* Initial state: nothing called yet, under either build profile *)

Init ==
    /\ overflow_checks \in BOOLEAN
    /\ op = "none"
    /\ args = <<>>
    /\ ret = <<>>
    /\ addr = NoAddress
    /\ data = <<>>
    /\ decoded = Pending

\* a behaviour is one call: the function is applied to the sampled arguments
Idle == op = "none"

Call(name, a, r) ==
    /\ op' = name
    /\ args' = a
    /\ ret' = r
    /\ UNCHANGED <<overflow_checks, addr, data, decoded>>

----------------------------------------------------------------------------
(* One action per function of FeeRate *)

FromSatPerVb ==
    /\ Idle
    /\ \E v \in U64s : Call("from_sat_per_vb", [sat_vb |-> v], from_sat_per_vb(v))

FromSatPerVbUnchecked ==
    /\ Idle
    /\ \E v \in U64s :
        Call("from_sat_per_vb_unchecked", [sat_vb |-> v], from_sat_per_vb_unchecked(v))

ToSatPerVbFloor ==
    /\ Idle
    /\ \E r \in U64s : Call("to_sat_per_vb_floor", [self |-> r], to_sat_per_vb_floor(r))

ToSatPerVbCeil ==
    /\ Idle
    /\ \E r \in U64s : Call("to_sat_per_vb_ceil", [self |-> r], to_sat_per_vb_ceil(r))

CheckedMul ==
    /\ Idle
    /\ \E p \in MulPairs :
        Call("checked_mul", [self |-> p[1], rhs |-> p[2]], checked_mul(p[1], p[2]))

CheckedDiv ==
    /\ Idle
    /\ \E r \in U64s, k \in U64s :
        Call("checked_div", [self |-> r, rhs |-> k], checked_div(r, k))

CheckedMulByWeight ==
    /\ Idle
    /\ \E p \in MulPairs :
        Call("checked_mul_by_weight", [self |-> p[1], weight |-> p[2]],
             checked_mul_by_weight(p[1], p[2]))

CheckedAdd ==
    /\ Idle
    /\ \E r \in U64s, k \in U64s :
        Call("checked_add", [self |-> r, rhs |-> k], checked_add(r, k))

CheckedSub ==
    /\ Idle
    /\ \E r \in U64s, k \in U64s :
        Call("checked_sub", [self |-> r, rhs |-> k], checked_sub(r, k))

FeeWu ==
    /\ Idle
    /\ \E p \in MulPairs :
        Call("fee_wu", [self |-> p[1], weight |-> p[2]], fee_wu(p[1], p[2]))

FeeVb ==
    /\ Idle
    /\ \E p \in VbPairs :
        Call("fee_vb", [self |-> p[1], vb |-> p[2]], fee_vb(p[1], p[2]))

Add ==
    /\ Idle
    /\ \E r \in U64s, k \in U64s :
        Call("add", [self |-> r, rhs |-> k], FeeRate_add(r, k))

Sub ==
    /\ Idle
    /\ \E r \in U64s, k \in U64s :
        Call("sub", [self |-> r, rhs |-> k], FeeRate_sub(r, k))

\* weight * rate
MulWeightByFeeRate ==
    /\ Idle
    /\ \E p \in MulPairs :
        Call("weight_mul", [self |-> p[2], rhs |-> p[1]], Weight_mul(p[2], p[1]))

\* rate * weight
MulFeeRateByWeight ==
    /\ Idle
    /\ \E p \in MulPairs :
        Call("fee_rate_mul", [self |-> p[1], rhs |-> p[2]], FeeRate_mul(p[1], p[2]))

\* amount / weight
DivAmountByWeight ==
    /\ Idle
    /\ \E s \in U64s, w \in U64s :
        Call("amount_div", [self |-> s, rhs |-> w], Amount_div(s, w))

Sum ==
    /\ Idle
    /\ \E it \in Iters : Call("sum", [iter |-> it], FeeRate_sum(it))

Next ==
    \/ FromSatPerVb
    \/ FromSatPerVbUnchecked
    \/ ToSatPerVbFloor
    \/ ToSatPerVbCeil
    \/ CheckedMul
    \/ CheckedDiv
    \/ CheckedMulByWeight
    \/ CheckedAdd
    \/ CheckedSub
    \/ FeeWu
    \/ FeeVb
    \/ Add
    \/ Sub
    \/ MulWeightByFeeRate
    \/ MulFeeRateByWeight
    \/ DivAmountByWeight
    \/ Sum

Spec == Init /\ [][Next]_vars

----------------------------------------------------------------------------
(* The address codec: encode an address, decode the payload it produced,   *)
(* or decode a payload that came from elsewhere                            *)

ToBase58Check ==
    \E a \in Addresses :
        /\ addr' = a
        /\ data' = base58_layout(a)
        /\ decoded' = Pending
        /\ UNCHANGED <<overflow_checks, op, args, ret>>

FromBase58CheckOwn ==
    /\ addr # NoAddress
    /\ decoded = Pending
    /\ decoded' = from_base58_layout(data)
    /\ UNCHANGED <<overflow_checks, op, args, ret, addr, data>>

FromBase58CheckForeign ==
    \E p \in Payloads :
        /\ addr' = NoAddress
        /\ data' = p
        /\ decoded' = from_base58_layout(p)
        /\ UNCHANGED <<overflow_checks, op, args, ret>>

AddrNext ==
    \/ ToBase58Check
    \/ FromBase58CheckOwn
    \/ FromBase58CheckForeign

AddrSpec == Init /\ [][AddrNext]_vars

----------------------------------------------------------------------------
(* Properties of the address codec (checked under AddrSpec) *)

\* C1: round trip. Decoding the payload that encoding an address produced
\* returns Ok with an address equal to the original in network and hash.
C1_RoundTrip ==
    (addr # NoAddress /\ decoded # Pending) =>
        /\ decoded.is_ok
        /\ decoded.val.network = addr.network
        /\ decoded.val.hash = addr.hash

\* the address of test_address_58 has been encoded and decoded back
C1_Witness ==
    /\ addr = Address("Bitcoin", TestHash)
    /\ data = <<0>> \o TestHash
    /\ decoded = Ok(addr)

\* C2: decode rejects a payload whose length is not 21 with
\* InvalidLength(len), a 21-byte payload whose first byte is neither 0 nor
\* 111 with InvalidVersion carrying that byte, and otherwise returns the
\* address of network Bitcoin (0) or Testnet (111) with hash = payload[1..21].
C2_DecodeCases ==
    decoded # Pending =>
        IF Len(data) # 21
        THEN decoded = Err(InvalidLength(Len(data)))
        ELSE IF data[1] \notin {0, 111}
             THEN decoded = Err(InvalidVersion(<<data[1]>>))
             ELSE decoded = Ok([network |-> IF data[1] = 0 THEN "Bitcoin"
                                            ELSE "Testnet",
                                hash |-> SubSeq(data, 2, 21)])

\* a foreign payload of 22 bytes with an unknown version byte was rejected
\* for its length
C2_Witness ==
    /\ addr = NoAddress
    /\ Len(data) = 22
    /\ data[1] = 255
    /\ decoded = Err(InvalidLength(22))

----------------------------------------------------------------------------
(* Properties of FeeRate (checked under Spec) *)

\* a is the smallest integer with a * d >= p
IsCeilQuot(a, p, d) == a * d >= p /\ (a = 0 \/ (a - 1) * d < p)

\* q is the largest integer with q * d <= p
IsFloorQuot(q, p, d) == q * d <= p /\ (q + 1) * d > p

\* C3 as stated: whenever rate * weight fits in u64, checked_mul_by_weight
\* returns a value, the smallest a with a * 1000 >= rate * weight.
C3_Original ==
    (op = "checked_mul_by_weight" /\ args.self * args.weight <= U64_MAX) =>
        /\ ret.is_some
        /\ IsCeilQuot(ret.val, args.self * args.weight, 1000)

\* C3 amended: whenever rate * weight + 999 fits in u64,
\* checked_mul_by_weight returns a value, the smallest a with
\* a * 1000 >= rate * weight; whenever rate * weight + 999 does not fit
\* (even if the product itself does) it returns None.
C3_CeilingLaw ==
    op = "checked_mul_by_weight" =>
        IF args.self * args.weight + 999 <= U64_MAX
        THEN /\ ret.is_some
             /\ IsCeilQuot(ret.val, args.self * args.weight, 1000)
        ELSE ret = None

\* 864 sat/kwu at 381 wu: 329.184 sat, rounded up to 330
C3_Witness ==
    /\ op = "checked_mul_by_weight"
    /\ args = [self |-> 864, weight |-> 381]
    /\ ret = Some(330)

\* C4: from_sat_per_vb(v) returns a value exactly when v * 250 fits in u64;
\* the value is the rate v * 250 sat/kwu, and converting it back with
\* to_sat_per_vb_floor gives v; from_sat_per_vb(u64::MAX) is None.
C4_ConversionExact ==
    op = "from_sat_per_vb" =>
        /\ ret.is_some <=> args.sat_vb * 250 <= U64_MAX
        /\ ret.is_some =>
            /\ ret.val = args.sat_vb * 250
            /\ to_sat_per_vb_floor(ret.val) = args.sat_vb
        /\ args.sat_vb = U64_MAX => ret = None

\* 10 sat/vB is 2500 sat/kwu
C4_Witness ==
    /\ op = "from_sat_per_vb"
    /\ args.sat_vb = 10
    /\ ret = Some(2500)

\* C5 as stated: for every raw rate r in 0..=u64::MAX, to_sat_per_vb_ceil
\* returns the smallest v with v * 250 >= r, never less than
\* to_sat_per_vb_floor.
C5_CeilEverywhere ==
    op = "to_sat_per_vb_ceil" =>
        /\ ~ret.panicked
        /\ IsCeilQuot(ret.val, args.self, 250)
        /\ ret.val >= to_sat_per_vb_floor(args.self)

\* the overflow / exactness conditions of the unchecked operator forms
UncheckedOps == {"add", "sub", "weight_mul", "fee_rate_mul", "amount_div",
                 "from_sat_per_vb_unchecked", "sum"}

RECURSIVE SeqSum(_)
SeqSum(s) == IF s = <<>> THEN 0 ELSE Head(s) + SeqSum(Tail(s))

\* the exact (unbounded integer) value some step of the call computes
\* leaves the u64 range
LeavesRange ==
    CASE op = "add" -> args.self + args.rhs > U64_MAX
      [] op = "sub" -> args.self - args.rhs < 0
      [] op \in {"weight_mul", "fee_rate_mul"} ->
            args.self * args.rhs + 999 > U64_MAX
      [] op = "amount_div" -> args.self * 1000 > U64_MAX
      [] op = "from_sat_per_vb_unchecked" -> args.sat_vb * 250 > U64_MAX
      [] op = "sum" -> SeqSum(args.iter) > U64_MAX

\* the value of the call when every step is reduced modulo 2^w: the exact
\* value when nothing leaves the range
WrappedValue ==
    CASE op = "add" -> (args.self + args.rhs) % Modulus
      [] op = "sub" -> (args.self - args.rhs) % Modulus
      [] op \in {"weight_mul", "fee_rate_mul"} ->
            ((((args.self * args.rhs) % Modulus) + 999) % Modulus) \div 1000
      [] op = "amount_div" -> ((args.self * 1000) % Modulus) \div args.rhs
      [] op = "from_sat_per_vb_unchecked" -> (args.sat_vb * 250) % Modulus
      [] op = "sum" -> SeqSum(args.iter) % Modulus

DividesByZero == op = "amount_div" /\ args.rhs = 0

\* C6 as stated: whenever an intermediate or final value of an unchecked
\* operator form leaves the u64 range, the operation aborts.
C6_Original ==
    (op \in UncheckedOps /\ LeavesRange) => ret = Panic

\* C6 amended: the unchecked operator forms make no overflow check of their
\* own. When a value leaves the u64 range the operation aborts in a build
\* with overflow checks (debug) and returns the value wrapped modulo 2^64 in
\* a build without them (release); a division by a zero weight aborts in
\* both; when nothing leaves the range the result is exact.
C6_TrapOrWrap ==
    op \in UncheckedOps =>
        IF DividesByZero \/ (LeavesRange /\ overflow_checks)
        THEN ret = Panic
        ELSE ret = Done(WrappedValue)

\* from_sat_per_vb_unchecked(u64::MAX) in a build with overflow checks
C6_Witness ==
    /\ op = "from_sat_per_vb_unchecked"
    /\ args.sat_vb = U64_MAX
    /\ overflow_checks
    /\ ret = Panic

MulRate == IF op = "fee_rate_mul" THEN args.self ELSE args.rhs
MulWeight == IF op = "fee_rate_mul" THEN args.rhs ELSE args.self

\* C7: for every (rate, weight) with rate * weight + 999 in u64,
\* rate * weight and weight * rate both are (rate * weight + 999) / 1000,
\* the value checked_mul_by_weight(rate, weight) returns.
C7_MulEitherOrder ==
    (op \in {"fee_rate_mul", "weight_mul"}
        /\ MulRate * MulWeight + 999 <= U64_MAX) =>
        /\ ret = Done((MulRate * MulWeight + 999) \div 1000)
        /\ FeeRate_mul(MulRate, MulWeight) = ret
        /\ Weight_mul(MulWeight, MulRate) = ret
        /\ checked_mul_by_weight(MulRate, MulWeight) = Some(ret.val)

\* 2 sat/vB (500 sat/kwu) times 3 vB (12 wu) is 6 sat
C7_Witness ==
    /\ op = "fee_rate_mul"
    /\ args = [self |-> 500, rhs |-> 12]
    /\ ret = Done(6)

\* C8 as stated: for every amount s and weight w > 0, s / w is the rate
\* that is the largest r with r * w <= s * 1000.
C8_Original ==
    (op = "amount_div" /\ args.rhs > 0) =>
        /\ ~ret.panicked
        /\ IsFloorQuot(ret.val, args.self * 1000, args.rhs)

\* C8 amended: for every amount s with s * 1000 in u64 and weight w > 0,
\* s / w is the rate that is the largest r with r * w <= s * 1000.
C8_TruncatingDiv ==
    (op = "amount_div" /\ args.rhs > 0 /\ args.self * 1000 <= U64_MAX) =>
        /\ ~ret.panicked
        /\ IsFloorQuot(ret.val, args.self * 1000, args.rhs)

\* 329 sat / 381 wu = 863 sat/kwu (863.51 truncated)
C8_Witness ==
    /\ op = "amount_div"
    /\ args = [self |-> 329, rhs |-> 381]
    /\ ret = Done(863)

\* C9: each checked_* operation returns None exactly when the exact result
\* is not a u64 (product or sum above u64::MAX, difference below zero,
\* division by zero) and otherwise Some of the exact product, sum,
\* difference or truncated quotient.
C9_CheckedOps ==
    /\ op = "checked_mul" =>
        ret = IF args.self * args.rhs > U64_MAX THEN None
              ELSE Some(args.self * args.rhs)
    /\ op = "checked_add" =>
        ret = IF args.self + args.rhs > U64_MAX THEN None
              ELSE Some(args.self + args.rhs)
    /\ op = "checked_sub" =>
        ret = IF args.rhs > args.self THEN None
              ELSE Some(args.self - args.rhs)
    /\ op = "checked_div" =>
        /\ ret = None <=> args.rhs = 0
        /\ ret # None =>
            /\ ret.is_some
            /\ IsFloorQuot(ret.val, args.self, args.rhs)

\* FeeRate(10).checked_mul(u64::MAX) is None
C9_Witness ==
    /\ op = "checked_mul"
    /\ args = [self |-> 10, rhs |-> U64_MAX]
    /\ ret = None

\* C10: fee_vb(rate, vb) is None iff vb * 4 overflows or
\* checked_mul_by_weight(rate, 4 * vb) is None, and otherwise returns the
\* same amount, the ceiling of rate * 4 * vb / 1000; fee_wu is
\* checked_mul_by_weight.
C10_FeeVb ==
    /\ op = "fee_vb" =>
        IF args.vb * 4 > U64_MAX
        THEN ret = None
        ELSE /\ ret = checked_mul_by_weight(args.self, args.vb * 4)
             /\ ret = IF args.self * (args.vb * 4) + 999 > U64_MAX THEN None
                      ELSE Some((args.self * (args.vb * 4) + 999) \div 1000)
    /\ op = "fee_wu" =>
        ret = checked_mul_by_weight(args.self, args.weight)

\* 2 sat/vB (500 sat/kwu) over 3 vB is 6 sat
C10_Witness ==
    /\ op = "fee_vb"
    /\ args = [self |-> 500, vb |-> 3]
    /\ ret = Some(6)

\* C11: the ceiling fee recovers at least the rate it was computed from.
\* For every rate r and weight w > 0 with checked_mul_by_weight(r, w) =
\* Some(fee) and fee * 1000 in u64, the truncating division fee / w returns
\* a rate >= r, in either build profile; one satoshi less can fall short:
\* at 864 sat/kwu and 381 wu the fee is 330, and 329 / 381 is 863 < 864.
C11_FeeRecoversRate ==
    (op = "checked_mul_by_weight" /\ args.weight > 0 /\ ret.is_some
        /\ ret.val * 1000 <= U64_MAX) =>
        /\ ~Amount_div(ret.val, args.weight).panicked
        /\ Amount_div(ret.val, args.weight).val >= args.self
        /\ IsFloorQuot(Amount_div(ret.val, args.weight).val,
                       ret.val * 1000, args.weight)
        /\ args = [self |-> 864, weight |-> 381] =>
            /\ ret.val = 330
            /\ Amount_div(ret.val - 1, args.weight) = Done(863)

\* the fee of 864 sat/kwu over 381 wu was computed: 330 sat gives back
\* 866 sat/kwu, 329 sat only 863
C11_Witness ==
    /\ op = "checked_mul_by_weight"
    /\ args = [self |-> 864, weight |-> 381]
    /\ ret = Some(330)
    /\ Amount_div(330, 381) = Done(866)
    /\ Amount_div(329, 381) = Done(863)

====
